---- MODULE Spec2Model ----
(***************************************************************************)
(* Model of the Cortex-M0 architecture layer of altos-core                 *)
(* (src/arch/cm0.rs) and of its critical-section guard                     *)
(* (src/sync/critical.rs).                                                 *)
(*                                                                         *)
(* The CPU state is the PRIMASK bit, the active execution contexts (the    *)
(* thread and the interrupt handlers stacked on top of it), the core       *)
(* registers, a window of RAM holding one task stack, the pending bits of  *)
(* the Interrupt Control and State Register and the saved contexts of the  *)
(* tasks that are switched out.                                            *)
(***************************************************************************)
EXTENDS Integers, Sequences, FiniteSets, TLC

VARIABLES
    primask,    \* the PRIMASK register: 1 = maskable interrupts disabled
    frames,     \* execution contexts: frames[1] is the thread, the others
                \* are interrupt handlers that preempted the one below
    sys,        \* the in-line system call the thread is making or made last
    unwinds,    \* build configuration: TRUE when a panic unwinds the stack
                \* (running destructors), FALSE when it aborts in place
    task,       \* the task being created and launched: the top of its stack,
                \* its entry function, its argument block, its saved stack
                \* pointer (the first word of the task, 0 until primed)
    mem,        \* the RAM words around the task's stack, by byte address
    cpu,        \* core registers: r0-r12, lr, psp, msp, CONTROL, pc, Thumb bit
    phase,      \* how far task creation and the first launch have got
    icsr,       \* the pending bits of the Interrupt Control and State Register
    current,    \* the task whose thread context is frames[1]
    parked,     \* the saved thread contexts of the tasks that are switched out
    requests,   \* bookkeeping: yield_cpu calls completed since the last context
                \* switch, and how many the last context switch answered
    ikm         \* the last call of in_kernel_mode: what it read and returned

sysVars == <<sys, unwinds>>
bootVars == <<task, mem, cpu, phase>>
schedVars == <<icsr, current, parked, requests, ikm>>
vars == <<primask, frames, sys, unwinds, task, mem, cpu, phase, icsr, current, parked,
          requests, ikm>>

(***************************************************************************)
(* Bounds                                                                  *)
(***************************************************************************)
\* how many critical sections one context holds at a time
MaxNest == 3
\* how many interrupt handlers are stacked on the thread at a time
MaxIrqNest == 2
\* argument words passed to system calls are drawn from 1..MaxArg
MaxArg == 2

(***************************************************************************)
(* arch::begin_critical / arch::end_critical  (cm0.rs 96-128)              *)
(***************************************************************************)
\* PRIMASK is a one-bit register: a write keeps bit 0 of the operand
PrimaskBit(word) == word % 2

\* Mutation: the token is a constant 0 instead of the PRIMASK read
mrs_primask_constant == 0

\* "mrs $0, PRIMASK": the value the read leaves in the token register
mrs_primask == primask

\* "cpsid i": the value PRIMASK holds afterwards
cpsid_i == 1

\* "cpsie i": the value PRIMASK holds afterwards
cpsie_i == 0

\* Mutation: end_critical enables interrupts whatever its token says
end_critical_enables(token) == 0

\* end_critical(primask): "msr PRIMASK, $0", the value PRIMASK holds afterwards
end_critical(token) == PrimaskBit(token)

Top == frames[Len(frames)]
SetTop(f) == frames' = [frames EXCEPT ![Len(frames)] = f]
\* A context: where it executes, the register begin_critical read PRIMASK
\* into, and the tokens of its live guards, outermost first
NewFrame == [pc |-> "run", tmp |-> 0, held |-> <<>>]

\* Remove element i of a sequence
RemoveAt(s, i) == [j \in 1..(Len(s) - 1) |-> IF j < i THEN s[j] ELSE s[j + 1]]
Front(s) == SubSeq(s, 1, Len(s) - 1)
Last(s) == s[Len(s)]

\* begin_critical, first instruction: read PRIMASK into the result register
begin_critical_mrs ==
    /\ Top.pc = "run"
    /\ Len(Top.held) < MaxNest
    /\ SetTop([Top EXCEPT !.pc = "mrs", !.tmp = mrs_primask])
    /\ UNCHANGED <<primask, sysVars, bootVars, schedVars>>

\* begin_critical, second instruction and return: disable interrupts, hand
\* the value read to the caller (CriticalSection::begin stores it in the guard)
begin_critical_cpsid ==
    /\ Top.pc = "mrs"
    /\ primask' = cpsid_i
    /\ SetTop([pc |-> "run", tmp |-> 0, held |-> Append(Top.held, Top.tmp)])
    /\ UNCHANGED <<sysVars, bootVars, schedVars>>

\* Mutation: the guard is forgotten, Drop::drop never runs
DropInnermost_forgets ==
    /\ Top.pc = "run"
    /\ Top.held # <<>>
    /\ SetTop([Top EXCEPT !.held = Front(Top.held)])
    /\ UNCHANGED <<primask, sysVars, bootVars, schedVars>>

\* The innermost guard of the running context goes out of scope:
\* Drop::drop calls end_critical with the guard's token
DropInnermost ==
    /\ Top.pc = "run"
    /\ Top.held # <<>>
    /\ primask' = end_critical(Last(Top.held))
    /\ SetTop([Top EXCEPT !.held = Front(Top.held)])
    /\ UNCHANGED <<sysVars, bootVars, schedVars>>

\* Mutation: the drop passes the token of the innermost guard, not its own
DropGuard_foreign(i) ==
    /\ Top.pc = "run"
    /\ i \in 1..Len(Top.held)
    /\ primask' = end_critical(Last(Top.held))
    /\ SetTop([Top EXCEPT !.held = RemoveAt(Top.held, i)])
    /\ UNCHANGED <<sysVars, bootVars, schedVars>>

\* drop(guard) on any live guard of the running context, in any order
DropGuard(i) ==
    /\ Top.pc = "run"
    /\ i \in 1..Len(Top.held)
    /\ primask' = end_critical(Top.held[i])
    /\ SetTop([Top EXCEPT !.held = RemoveAt(Top.held, i)])
    /\ UNCHANGED <<sysVars, bootVars, schedVars>>

\* A maskable interrupt is taken: only while PRIMASK is 0
IrqEnter ==
    /\ primask = 0
    /\ Len(frames) <= MaxIrqNest
    /\ frames' = Append(frames, NewFrame)
    /\ UNCHANGED <<primask, sysVars, bootVars, schedVars>>

\* The handler returns; its guards are scoped, so none is live any more.
\* Exception return does not touch PRIMASK.
IrqReturn ==
    /\ Len(frames) > 1
    /\ Top.pc = "run"
    /\ Top.held = <<>>
    /\ frames' = Front(frames)
    /\ UNCHANGED <<primask, sysVars, bootVars, schedVars>>

(***************************************************************************)
(* In-line system calls  (cm0.rs 148-243, feature "syscall" off)           *)
(***************************************************************************)
\* The call codes of the syscall module
SYS_EXIT == 0
SYS_SCHED_YIELD == 1
SYS_SLEEP == 2
SYS_SLEEP_FOR == 3
SYS_WAKE == 4
SYS_MX_LOCK == 5
SYS_MX_TRY_LOCK == 6
SYS_MX_UNLOCK == 7
SYS_CV_WAIT == 8
SYS_CV_BROADCAST == 9
\* a value outside the enumeration
SYS_UNKNOWN == 99

SyscallCodes == {SYS_EXIT, SYS_SCHED_YIELD, SYS_SLEEP, SYS_SLEEP_FOR, SYS_WAKE,
                 SYS_MX_LOCK, SYS_MX_TRY_LOCK, SYS_MX_UNLOCK, SYS_CV_WAIT,
                 SYS_CV_BROADCAST}
CallValues == SyscallCodes \cup {SYS_UNKNOWN}
ArgValues == 1..MaxArg

\* "b as usize" for a bool
BoolAsUsize(b) == IF b THEN 1 ELSE 0
BoolName(b) == IF b THEN "true" ELSE "false"

\* What the match of a syscall function does: the handler it calls with its
\* arguments and the word the function then returns, or a panic
\* (hres is what the handler returned: "unit", "true" or "false")
Handled(fn, args, hres, ret) ==
    [panic |-> FALSE, log |-> <<[fn |-> fn, args |-> args, hres |-> hres]>>, ret |-> ret]
Panicked == [panic |-> TRUE, log |-> <<>>, ret |-> 0]

\* Mutation: syscall0 treats a code it does not know as a yield
syscall0_lenient(call) ==
    CASE call = SYS_EXIT -> Handled("sys_exit", <<>>, "unit", 0)
      [] OTHER -> Handled("sys_sched_yield", <<>>, "unit", 0)

syscall0(call) ==
    CASE call = SYS_EXIT -> Handled("sys_exit", <<>>, "unit", 0)
      [] call = SYS_SCHED_YIELD -> Handled("sys_sched_yield", <<>>, "unit", 0)
      [] OTHER -> Panicked

\* locked: the boolean the mutex handler returns
syscall1(call, arg1, locked) ==
    CASE call = SYS_SLEEP -> Handled("sys_sleep", <<arg1>>, "unit", 0)
      [] call = SYS_WAKE -> Handled("sys_wake", <<arg1>>, "unit", 0)
      [] call = SYS_MX_LOCK -> Handled("sys_mutex_lock", <<arg1>>, BoolName(locked), BoolAsUsize(locked))
      [] call = SYS_MX_TRY_LOCK -> Handled("sys_mutex_try_lock", <<arg1>>, BoolName(locked), BoolAsUsize(locked))
      [] call = SYS_MX_UNLOCK -> Handled("sys_mutex_unlock", <<arg1>>, "unit", 0)
      [] call = SYS_CV_BROADCAST -> Handled("sys_condvar_broadcast", <<arg1>>, "unit", 0)
      [] OTHER -> Panicked

\* Mutation: syscall2 hands CV_WAIT its arguments in the other order
syscall2_swapped(call, arg1, arg2) ==
    CASE call = SYS_SLEEP_FOR -> Handled("sys_sleep_for", <<arg1, arg2>>, "unit", 0)
      [] call = SYS_CV_WAIT -> Handled("sys_condvar_wait", <<arg2, arg1>>, "unit", 0)
      [] OTHER -> Panicked

syscall2(call, arg1, arg2) ==
    CASE call = SYS_SLEEP_FOR -> Handled("sys_sleep_for", <<arg1, arg2>>, "unit", 0)
      [] call = SYS_CV_WAIT -> Handled("sys_condvar_wait", <<arg1, arg2>>, "unit", 0)
      [] OTHER -> Panicked

\* st: none, called, handled, panicked, returned; entry and depth: PRIMASK and
\* the number of live guards of the thread when the call was made
NoSys == [st |-> "none", n |-> 0, call |-> 0, args |-> <<>>,
          entry |-> 0, depth |-> 0, log |-> <<>>, ret |-> 0]

\* The thread calls syscall<n>(call, args): the function starts with
\* CriticalSection::begin(), whose first instruction reads PRIMASK
SyscallEnter(n, call, args) ==
    /\ Len(frames) = 1
    /\ Top.pc = "run"
    /\ Len(args) = n
    /\ sys' = [NoSys EXCEPT !.st = "called", !.n = n, !.call = call, !.args = args,
                            !.entry = primask, !.depth = Len(Top.held)]
    /\ SetTop([Top EXCEPT !.pc = "sys_mrs", !.tmp = mrs_primask])
    /\ UNCHANGED <<primask, unwinds, bootVars, schedVars>>

\* Mutation: the guard is created without disabling interrupts
SyscallGuard_unmasked ==
    /\ Top.pc = "sys_mrs"
    /\ SetTop([pc |-> "sys_match", tmp |-> 0, held |-> Append(Top.held, Top.tmp)])
    /\ UNCHANGED <<primask, sysVars, bootVars, schedVars>>

\* "let _g = CriticalSection::begin()" completes: interrupts are disabled and
\* the guard _g is the innermost live guard of the thread
SyscallGuard ==
    /\ Top.pc = "sys_mrs"
    /\ primask' = cpsid_i
    /\ SetTop([pc |-> "sys_match", tmp |-> 0, held |-> Append(Top.held, Top.tmp)])
    /\ UNCHANGED <<sysVars, bootVars, schedVars>>

\* The match on the call code, with the handler it calls run to completion
SyscallMatch ==
    /\ Top.pc = "sys_match"
    /\ \E locked \in BOOLEAN :
         LET out == CASE sys.n = 0 -> syscall0(sys.call)
                      [] sys.n = 1 -> syscall1(sys.call, sys.args[1], locked)
                      [] OTHER -> syscall2(sys.call, sys.args[1], sys.args[2])
         IN /\ sys' = [sys EXCEPT !.log = out.log, !.ret = out.ret,
                                  !.st = IF out.panic THEN "panicked" ELSE "handled"]
            /\ SetTop([Top EXCEPT !.pc = IF out.panic THEN "sys_panic" ELSE "sys_drop"])
    /\ UNCHANGED <<primask, unwinds, bootVars, schedVars>>

\* Mutation: the guard is forgotten on return, end_critical is never called
SyscallDropGuard_forgets ==
    /\ Top.pc = "sys_drop"
    /\ SetTop([Top EXCEPT !.pc = "sys_out", !.held = Front(Top.held)])
    /\ UNCHANGED <<primask, sysVars, bootVars, schedVars>>

\* "return ...": _g goes out of scope, Drop calls end_critical with its token
SyscallDropGuard ==
    /\ Top.pc = "sys_drop"
    /\ primask' = end_critical(Last(Top.held))
    /\ SetTop([Top EXCEPT !.pc = "sys_out", !.held = Front(Top.held)])
    /\ UNCHANGED <<sysVars, bootVars, schedVars>>

\* The function returns its word to the caller
SyscallReturn ==
    /\ Top.pc = "sys_out"
    /\ sys' = [sys EXCEPT !.st = "returned"]
    /\ SetTop([Top EXCEPT !.pc = "run"])
    /\ UNCHANGED <<primask, unwinds, bootVars, schedVars>>

\* panic!(...): an unwinding build runs the destructors of the live locals
\* (here _g) on the way out; an aborting build stops where it is
SyscallPanic ==
    /\ Top.pc = "sys_panic"
    /\ IF unwinds
       THEN /\ primask' = end_critical(Last(Top.held))
            /\ SetTop([Top EXCEPT !.pc = "unwinding", !.held = Front(Top.held)])
       ELSE /\ SetTop([Top EXCEPT !.pc = "aborted"])
            /\ UNCHANGED primask
    /\ UNCHANGED <<sysVars, bootVars, schedVars>>

\* The panic unwinds through the caller: its guards drop innermost first
Unwind ==
    /\ Top.pc = "unwinding"
    /\ IF Top.held # <<>>
       THEN /\ primask' = end_critical(Last(Top.held))
            /\ SetTop([Top EXCEPT !.held = Front(Top.held)])
       ELSE /\ SetTop([Top EXCEPT !.pc = "aborted"])
            /\ UNCHANGED primask
    /\ UNCHANGED <<sysVars, bootVars, schedVars>>

ArgLists(n) == [1..n -> ArgValues]

(***************************************************************************)
(* Stack priming and first-task launch  (cm0.rs 33-74, 245-247)            *)
(***************************************************************************)
\* usize is 4 bytes on the Cortex-M0; pointer offsets count words
WordBytes == 4
\* const INITIAL_XPSR: usize = 0x0100_0000
INITIAL_XPSR == 16777216
\* "exit_error as usize": the address the linker gave the exit trampoline,
\* with the Thumb bit every function pointer of a Thumb target carries
ExitErrorAddr == 134217985
\* the main stack pointer the kernel boots on (outside the task's RAM window)
MainStackTop == 536879104

\* The RAM window: word addresses 0x20000FB0 .. 0x20001004
RamBase == 536874928
RamWords == 22
RamAddrs == {RamBase + WordBytes * i : i \in 0..(RamWords - 1)}

\* Inputs of task creation: stack tops (0x20001000, 0x20000FF8), entry
\* functions (Thumb function pointers) and argument blocks
StackTops == {536875008, 536875000}
EntryPoints == {134222389, 134225921}
ArgBlocks == {536871040, 536871168}
Seeds == {0, 1}

\* What RAM and registers hold before anything meaningful is written
Junk(seed, addr) == 1000 * (seed + 1) + (addr % 256)
RegJunk(i) == 7000 + i
BusJunk == 9999

\* stack_ptr.offset(n)
Offset(ptr, n) == ptr + n * WordBytes

Read(m, addr) == IF addr \in DOMAIN m THEN m[addr] ELSE BusJunk

\* Mutation: the argument block is stored one word too high (the R1 slot)
initialize_stack_mem_r1(m, stack_ptr, code, args) ==
    [m EXCEPT ![Offset(stack_ptr, -1)] = INITIAL_XPSR,
              ![Offset(stack_ptr, -2)] = code,
              ![Offset(stack_ptr, -3)] = ExitErrorAddr,
              ![Offset(stack_ptr, -7)] = args]

\* The four stores of initialize_stack
initialize_stack_mem(m, stack_ptr, code, args) ==
    [m EXCEPT ![Offset(stack_ptr, -1)] = INITIAL_XPSR,
              ![Offset(stack_ptr, -2)] = code,
              ![Offset(stack_ptr, -3)] = ExitErrorAddr,
              ![Offset(stack_ptr, -8)] = args]

\* Mutation: the returned pointer is one word short of the 16-word frame
initialize_stack_ret_short(stack_ptr) == Offset(stack_ptr, -15)

\* The value initialize_stack returns
initialize_stack_ret(stack_ptr) == Offset(stack_ptr, -16)

\* Task creation primes the stack and keeps the returned pointer as the
\* first word of the task
InitializeStack ==
    /\ phase = "created"
    /\ mem' = initialize_stack_mem(mem, task.top, task.code, task.args)
    /\ task' = [task EXCEPT !.sp = initialize_stack_ret(task.top)]
    /\ phase' = "primed"
    /\ UNCHANGED <<primask, frames, sysVars, schedVars, cpu>>

\* The stack pointer in use: CONTROL bit 1 selects the process stack
UsesPsp(c) == (c.control \div 2) % 2 = 1
SP(c) == IF UsesPsp(c) THEN c.psp ELSE c.msp
SetSP(c, v) == IF UsesPsp(c) THEN [c EXCEPT !.psp = v] ELSE [c EXCEPT !.msp = v]

\* pop {rlist}: load the listed registers from ascending addresses
Pop(c, m, rlist) ==
    LET loaded == [c EXCEPT !.r = [i \in DOMAIN c.r |->
                        IF \E k \in 1..Len(rlist) : rlist[k] = i
                        THEN Read(m, SP(c) + WordBytes *
                                 ((CHOOSE k \in 1..Len(rlist) : rlist[k] = i) - 1))
                        ELSE c.r[i]]]
    IN SetSP(loaded, SP(c) + WordBytes * Len(rlist))

\* bx Rm: branch to Rm with bit 0 cleared, bit 0 becomes the Thumb bit
BranchExchange(c, target) == [c EXCEPT !.pc = target - (target % 2), !.thumb = target % 2]
\* Where execution is when a function pointer has been branched to
FnAddr(fnptr) == fnptr - (fnptr % 2)

\* Mutation: the software-saved words are not skipped
start_first_task_psp_noskip(saved_sp) == saved_sp

\* "adds r0, #32": the process stack pointer for a saved stack pointer
start_first_task_psp(saved_sp) == saved_sp + 32
\* "movs r0, #2": the value written to CONTROL
start_first_task_control == 2

\* ldr r2, current_task_const_2; ldr r3, [r2]; ldr r0, [r3]
sft_load ==
    /\ phase = "primed"
    /\ cpu' = [cpu EXCEPT !.r[0] = task.sp]
    /\ phase' = "sft_loaded"
    /\ UNCHANGED <<primask, frames, sysVars, schedVars, task, mem>>

\* adds r0, #32; msr psp, r0
sft_psp ==
    /\ phase = "sft_loaded"
    /\ LET r0 == start_first_task_psp(cpu.r[0])
       IN cpu' = [cpu EXCEPT !.r[0] = r0, !.psp = r0]
    /\ phase' = "sft_psp"
    /\ UNCHANGED <<primask, frames, sysVars, schedVars, task, mem>>

\* Mutation: interrupts are enabled as soon as the stack is switched
sft_control_cpsie ==
    /\ phase = "sft_psp"
    /\ cpu' = [cpu EXCEPT !.r[0] = start_first_task_control,
                          !.control = start_first_task_control]
    /\ primask' = cpsie_i
    /\ phase' = "sft_control"
    /\ UNCHANGED <<frames, sysVars, schedVars, task, mem>>

\* movs r0, #2; msr CONTROL, r0; isb
sft_control ==
    /\ phase = "sft_psp"
    /\ cpu' = [cpu EXCEPT !.r[0] = start_first_task_control,
                          !.control = start_first_task_control]
    /\ phase' = "sft_control"
    /\ UNCHANGED <<primask, frames, sysVars, schedVars, task, mem>>

\* Mutation: only the four argument registers are popped
sft_pop_regs_r0_r3 ==
    /\ phase = "sft_control"
    /\ cpu' = Pop(cpu, mem, <<0, 1, 2, 3>>)
    /\ phase' = "sft_popped"
    /\ UNCHANGED <<primask, frames, sysVars, schedVars, task, mem>>

\* pop {r0-r5}
sft_pop_regs ==
    /\ phase = "sft_control"
    /\ cpu' = Pop(cpu, mem, <<0, 1, 2, 3, 4, 5>>)
    /\ phase' = "sft_popped"
    /\ UNCHANGED <<primask, frames, sysVars, schedVars, task, mem>>

\* Mutation: lr is taken from r4 (the R12 slot) instead of r5
sft_mov_lr_r4 ==
    /\ phase = "sft_popped"
    /\ cpu' = [cpu EXCEPT !.lr = cpu.r[4]]
    /\ phase' = "sft_lr"
    /\ UNCHANGED <<primask, frames, sysVars, schedVars, task, mem>>

\* mov lr, r5
sft_mov_lr ==
    /\ phase = "sft_popped"
    /\ cpu' = [cpu EXCEPT !.lr = cpu.r[5]]
    /\ phase' = "sft_lr"
    /\ UNCHANGED <<primask, frames, sysVars, schedVars, task, mem>>

\* pop {r3}
sft_pop_pc ==
    /\ phase = "sft_lr"
    /\ cpu' = Pop(cpu, mem, <<3>>)
    /\ phase' = "sft_pc"
    /\ UNCHANGED <<primask, frames, sysVars, schedVars, task, mem>>

\* pop {r2}
sft_pop_xpsr ==
    /\ phase = "sft_pc"
    /\ cpu' = Pop(cpu, mem, <<2>>)
    /\ phase' = "sft_xpsr"
    /\ UNCHANGED <<primask, frames, sysVars, schedVars, task, mem>>

\* cpsie i
sft_cpsie ==
    /\ phase = "sft_xpsr"
    /\ primask' = cpsie_i
    /\ phase' = "sft_cpsie"
    /\ UNCHANGED <<frames, sysVars, schedVars, task, mem, cpu>>

\* bx r3: control reaches the task
sft_bx ==
    /\ phase = "sft_cpsie"
    /\ cpu' = BranchExchange(cpu, cpu.r[3])
    /\ phase' = "task_entry"
    /\ UNCHANGED <<primask, frames, sysVars, schedVars, task, mem>>

\* The entry function's prologue, push {lr}, and a body that calls other
\* functions and so overwrites the caller-saved registers and lr
TaskBody ==
    /\ phase = "task_entry"
    /\ SP(cpu) - WordBytes \in DOMAIN mem
    /\ mem' = [mem EXCEPT ![SP(cpu) - WordBytes] = cpu.lr]
    /\ cpu' = [SetSP(cpu, SP(cpu) - WordBytes) EXCEPT
                  !.r = [i \in DOMAIN cpu.r |-> IF i \in {0, 1, 2, 3, 12} THEN RegJunk(i) ELSE cpu.r[i]],
                  !.lr = RegJunk(14)]
    /\ phase' = "task_body"
    /\ UNCHANGED <<primask, frames, sysVars, schedVars, task>>

\* The entry function returns normally: bx lr when it never saved lr,
\* pop {pc} when its prologue pushed it
TaskReturn ==
    /\ \/ /\ phase = "task_entry"
          /\ cpu' = BranchExchange(cpu, cpu.lr)
       \/ /\ phase = "task_body"
          /\ cpu' = BranchExchange(SetSP(cpu, SP(cpu) + WordBytes), Read(mem, SP(cpu)))
    /\ phase' = "returned"
    /\ UNCHANGED <<primask, frames, sysVars, schedVars, task, mem>>

\* fn exit_error() -> ! { syscall::exit(); }: runs when control is at its
\* address, calls the termination syscall, and never returns
exit_error ==
    /\ phase = "returned"
    /\ cpu.pc = FnAddr(ExitErrorAddr)
    /\ cpu.thumb = 1
    /\ cpu' = [cpu EXCEPT !.exits = cpu.exits + 1]
    /\ phase' = "exited"
    /\ UNCHANGED <<primask, frames, sysVars, schedVars, task, mem>>

\* how many interrupts are taken during one launch
MaxBootIrq == 2

\* Exception entry pushes r0-r3, r12, lr, the return address and xPSR on the
\* stack in use, below the stack pointer aligned down to 8 bytes (xPSR bit 9
\* records the adjustment); exception return pops them again
StackedFrame(c) ==
    LET adjust == SP(c) % 8
        base == SP(c) - adjust - 8 * WordBytes
        words == <<c.r[0], c.r[1], c.r[2], c.r[3], c.r[12], c.lr, c.pc,
                   c.thumb * INITIAL_XPSR + (IF adjust = 0 THEN 0 ELSE 512)>>
    IN [base |-> base, words |-> words]

\* A maskable interrupt is taken and its handler returns: only while PRIMASK
\* is 0.  The registers come back as they were; the stacked frame stays in
\* memory below the stack pointer.
BootIrq ==
    /\ primask = 0
    /\ phase \notin {"idle", "exited"}
    /\ cpu.irqs < MaxBootIrq
    /\ LET f == StackedFrame(cpu)
       IN mem' = [a \in DOMAIN mem |->
                    IF \E k \in 1..8 : a = f.base + WordBytes * (k - 1)
                    THEN f.words[(a - f.base) \div WordBytes + 1]
                    ELSE mem[a]]
    /\ cpu' = [cpu EXCEPT !.irqs = cpu.irqs + 1]
    /\ UNCHANGED <<primask, frames, sysVars, schedVars, task, phase>>

NoTask == [top |-> 0, code |-> 0, args |-> 0, seed |-> 0, sp |-> 0]
ResetCpu == [r |-> [i \in 0..12 |-> RegJunk(i)], lr |-> RegJunk(14), psp |-> 0,
             msp |-> MainStackTop, control |-> 0, pc |-> 0, thumb |-> 1, exits |-> 0,
             irqs |-> 0]

(***************************************************************************)
(* in_kernel_mode  (cm0.rs 76-94)                                          *)
(***************************************************************************)
\* const MAIN_STACK: usize = 0b00; const _PROGRAM_STACK: usize = 0b10
MAIN_STACK == 0
PROGRAM_STACK == 2

\* CONTROL has two bits: bit 0 is nPRIV (thread mode is unprivileged),
\* bit 1 is SPSEL (thread mode runs on the process stack)
ControlValues == 0..3
nPRIV(control) == control % 2
SPSEL(control) == (control \div 2) % 2

\* "mrs $0, CONTROL": an exception entry clears SPSEL (a handler always runs
\* on the main stack) and the exception return restores it
mrs_control == IF Len(frames) > 1 THEN nPRIV(cpu.control) ELSE cpu.control

\* Mutation: the build for other architectures, "let stack_mask = 0"
in_kernel_mode_stub(stack_mask) == 0 = MAIN_STACK

\* "stack_mask == MAIN_STACK": the whole register value is compared
in_kernel_mode(stack_mask) == stack_mask = MAIN_STACK

\* A call of in_kernel_mode() by the running context
InKernelMode ==
    /\ Top.pc = "run"
    /\ ikm' = [called |-> TRUE, control |-> mrs_control,
               handler |-> Len(frames) > 1,
               result |-> in_kernel_mode(mrs_control)]
    /\ UNCHANGED <<primask, frames, sysVars, bootVars, icsr, current, parked, requests>>

NoCall == [called |-> FALSE, control |-> 0, handler |-> FALSE, result |-> FALSE]

(***************************************************************************)
(* yield_cpu and the pended context switch  (cm0.rs 23-31)                 *)
(***************************************************************************)
\* const PEND_SV_SET: usize = 0b1 << 28
PEND_SV_SET == 268435456
\* ICSR bit 26, PENDSTSET: reads 1 while the system tick is pending, and
\* writing 1 makes the system tick pending
PEND_ST_SET == 67108864
\* how many yield_cpu calls the bookkeeping counts before it saturates
MaxYields == 2

Bit(word, mask) == (word \div mask) % 2
BitOr(word, mask) == IF Bit(word, mask) = 1 THEN word ELSE word + mask
BitClear(word, mask) == IF Bit(word, mask) = 1 THEN word - mask ELSE word

\* A store to ICSR: each set-pending bit written as 1 pends its exception,
\* a bit written as 0 changes nothing
IcsrStore(reg, word) ==
    LET sv == IF Bit(word, PEND_SV_SET) = 1 THEN BitOr(reg, PEND_SV_SET) ELSE reg
    IN IF Bit(word, PEND_ST_SET) = 1 THEN BitOr(sv, PEND_ST_SET) ELSE sv

\* Mutation: the bit is toggled instead of set
yield_cpu_toggles(word) ==
    IF Bit(word, PEND_SV_SET) = 1 THEN word - PEND_SV_SET ELSE word + PEND_SV_SET

\* "*reg |= PEND_SV_SET": the word stored for the word loaded
yield_cpu_word(word) == BitOr(word, PEND_SV_SET)

\* yield_cpu, the load of "*reg |= PEND_SV_SET"
yield_cpu_load ==
    /\ Top.pc = "run"
    /\ SetTop([Top EXCEPT !.pc = "yield", !.tmp = icsr])
    /\ UNCHANGED <<primask, sysVars, bootVars, icsr, current, parked, requests, ikm>>

\* yield_cpu, the store of "*reg |= PEND_SV_SET", and the return
yield_cpu_store ==
    /\ Top.pc = "yield"
    /\ icsr' = IcsrStore(icsr, yield_cpu_word(Top.tmp))
    /\ SetTop([Top EXCEPT !.pc = "run", !.tmp = 0])
    /\ requests' = [requests EXCEPT !.pending =
                        IF requests.pending < MaxYields THEN requests.pending + 1
                        ELSE MaxYields]
    /\ UNCHANGED <<primask, sysVars, bootVars, current, parked, ikm>>

\* The tasks the scheduler chooses from
Tasks == {1, 2}

\* The pended switch handler: the lowest-priority exception, taken when no
\* other handler is active and PRIMASK is 0.  Its entry clears the pending
\* bit; it saves the running task's context and resumes the task the
\* scheduler picks, which may be the same one.
PendSVHandler ==
    /\ primask = 0
    /\ Len(frames) = 1
    /\ Bit(icsr, PEND_SV_SET) = 1
    /\ icsr' = BitClear(icsr, PEND_SV_SET)
    /\ \E next \in Tasks :
          /\ current' = next
          /\ parked' = [parked EXCEPT ![current] = frames[1]]
          /\ frames' = <<parked'[next]>>
    /\ requests' = [pending |-> 0, served |-> requests.pending]
    /\ UNCHANGED <<primask, sysVars, bootVars, ikm>>

\* The system timer reaches zero: the system tick becomes pending
SysTickPends ==
    /\ Bit(icsr, PEND_ST_SET) = 0
    /\ icsr' = BitOr(icsr, PEND_ST_SET)
    /\ UNCHANGED <<primask, frames, sysVars, bootVars, current, parked, requests, ikm>>

\* The system tick exception is taken: only while PRIMASK is 0; its entry
\* clears the pending bit
SysTickEnter ==
    /\ primask = 0
    /\ Len(frames) <= MaxIrqNest
    /\ Bit(icsr, PEND_ST_SET) = 1
    /\ icsr' = BitClear(icsr, PEND_ST_SET)
    /\ frames' = Append(frames, NewFrame)
    /\ UNCHANGED <<primask, sysVars, bootVars, current, parked, requests, ikm>>

NoRequests == [pending |-> 0, served |-> 0]
AllParked == [t \in Tasks |-> NewFrame]

(***************************************************************************)
(* Hardware-trap system calls  (cm0.rs 130-146, 161-177, 209-225,          *)
(* feature "syscall" on)                                                   *)
(***************************************************************************)
\* Where the callers of the trampolines return to (Thumb return addresses)
ReturnAddrs == {134230001, 134234113}
\* What the supervisor-call handler leaves in the stacked r0
TrapResults == {0, 1}

\* The caller's registers at the call: "extern aapcs" passes the call code
\* in r0 and the arguments in r1 and r2
CallerCpu(control, sp, ret, call, args) ==
    [ResetCpu EXCEPT
        !.control = control,
        !.msp = IF SPSEL(control) = 1 THEN MainStackTop ELSE sp,
        !.psp = IF SPSEL(control) = 1 THEN sp ELSE 0,
        !.lr = ret,
        !.r = [i \in 0..12 |-> IF i = 0 THEN call
                               ELSE IF i <= Len(args) THEN args[i]
                               ELSE RegJunk(i)]]

\* push {lr}
trap_push_lr ==
    /\ phase = "trap_entry"
    /\ mem' = [a \in DOMAIN mem |-> IF a = SP(cpu) - WordBytes THEN cpu.lr ELSE mem[a]]
    /\ cpu' = SetSP(cpu, SP(cpu) - WordBytes)
    /\ phase' = "trap_pushed"
    /\ UNCHANGED <<primask, frames, sysVars, schedVars, task>>

\* Mutation: the padding is two words
trap_sub_sp_two ==
    /\ phase = "trap_pushed"
    /\ cpu' = SetSP(cpu, SP(cpu) - 8)
    /\ phase' = "trap_svc"
    /\ UNCHANGED <<primask, frames, sysVars, schedVars, task, mem>>

\* sub sp, sp, #4
trap_sub_sp ==
    /\ phase = "trap_pushed"
    /\ cpu' = SetSP(cpu, SP(cpu) - 4)
    /\ phase' = "trap_svc"
    /\ UNCHANGED <<primask, frames, sysVars, schedVars, task, mem>>

\* svc 0: the supervisor-call exception stacks the caller's registers, its
\* handler leaves a result in the stacked r0, the exception return unstacks
\* them.  With PRIMASK set the supervisor call cannot be taken and escalates
\* to a hard fault.
trap_svc ==
    /\ phase = "trap_svc"
    /\ \/ /\ primask = 0
          /\ \E res \in TrapResults :
                LET f == StackedFrame(cpu)
                IN /\ mem' = [a \in DOMAIN mem |->
                                IF a = f.base THEN res
                                ELSE IF \E k \in 2..8 : a = f.base + WordBytes * (k - 1)
                                THEN f.words[(a - f.base) \div WordBytes + 1]
                                ELSE mem[a]]
                   /\ cpu' = [cpu EXCEPT !.r[0] = res]
                   /\ sys' = [sys EXCEPT !.st = "trapped", !.ret = res]
          /\ phase' = "trap_back"
       \/ /\ primask = 1
          /\ phase' = "trap_fault"
          /\ UNCHANGED <<mem, cpu, sys>>
    /\ UNCHANGED <<primask, frames, unwinds, schedVars, task>>

\* add sp, sp, #4
trap_add_sp ==
    /\ phase = "trap_back"
    /\ cpu' = SetSP(cpu, SP(cpu) + 4)
    /\ phase' = "trap_added"
    /\ UNCHANGED <<primask, frames, sysVars, schedVars, task, mem>>

\* mov $0, r0: the output operand "=r"(res) is whichever low register the
\* compiler allocates
trap_mov_res ==
    /\ phase = "trap_added"
    /\ \E d \in 0..7 : cpu' = [cpu EXCEPT !.r[d] = cpu.r[0]]
    /\ phase' = "trap_moved"
    /\ UNCHANGED <<primask, frames, sysVars, schedVars, task, mem>>

\* pop {pc}
trap_pop_pc ==
    /\ phase = "trap_moved"
    /\ cpu' = BranchExchange(SetSP(cpu, SP(cpu) + WordBytes), Read(mem, SP(cpu)))
    /\ phase' = "trap_returned"
    /\ UNCHANGED <<primask, frames, sysVars, schedVars, task, mem>>

(***************************************************************************)
(* Specifications                                                          *)
(***************************************************************************)
BootIdle ==
    /\ task = NoTask
    /\ mem = [a \in RamAddrs |-> 0]
    /\ cpu = ResetCpu
    /\ phase = "idle"

SchedIdle ==
    /\ icsr = 0
    /\ current = 1
    /\ parked = AllParked
    /\ requests = NoRequests
    /\ ikm = NoCall

Init ==
    /\ primask \in {0, 1}
    /\ frames = <<NewFrame>>
    /\ sys = NoSys
    /\ unwinds \in BOOLEAN
    /\ BootIdle
    /\ SchedIdle

\* A thread that nests its critical sections properly and makes in-line
\* system calls, preempted by interrupt handlers whenever PRIMASK is 0
Next ==
    \/ begin_critical_mrs
    \/ begin_critical_cpsid
    \/ DropInnermost
    \/ IrqEnter
    \/ IrqReturn
    \/ \E n \in 0..2 : \E call \in CallValues : \E args \in ArgLists(n) :
          SyscallEnter(n, call, args)
    \/ SyscallGuard
    \/ SyscallMatch
    \/ SyscallDropGuard
    \/ SyscallReturn
    \/ SyscallPanic
    \/ Unwind

Spec == Init /\ [][Next]_vars

\* Guards created and dropped in any order
InitGuards ==
    /\ primask \in {0, 1}
    /\ frames = <<NewFrame>>
    /\ sys = NoSys
    /\ unwinds = FALSE
    /\ BootIdle
    /\ SchedIdle

NextGuards ==
    \/ begin_critical_mrs
    \/ begin_critical_cpsid
    \/ \E i \in 1..MaxNest : DropGuard(i)
    \/ IrqEnter
    \/ IrqReturn

SpecGuards == InitGuards /\ [][NextGuards]_vars

\* A task is created on a fresh stack and launched as the first task; the
\* kernel calls start_first_task with interrupts disabled
InitBoot ==
    /\ primask = 1
    /\ frames = <<NewFrame>>
    /\ sys = NoSys
    /\ unwinds = FALSE
    /\ \E top \in StackTops, code \in EntryPoints, args \in ArgBlocks, seed \in Seeds :
          /\ task = [top |-> top, code |-> code, args |-> args, seed |-> seed, sp |-> 0]
          /\ mem = [a \in RamAddrs |-> Junk(seed, a)]
    /\ cpu = ResetCpu
    /\ phase = "created"
    /\ SchedIdle

NextBoot ==
    \/ InitializeStack
    \/ sft_load
    \/ sft_psp
    \/ sft_control
    \/ sft_pop_regs
    \/ sft_mov_lr
    \/ sft_pop_pc
    \/ sft_pop_xpsr
    \/ sft_cpsie
    \/ sft_bx
    \/ TaskBody
    \/ TaskReturn
    \/ exit_error
    \/ BootIrq

SpecBoot == InitBoot /\ [][NextBoot]_vars

\* A caller on the main or on the process stack, its stack pointer 8-byte
\* aligned, calls syscall0, syscall1 or syscall2 in hardware-trap mode.
\* "task" holds the caller's stack pointer (top) and return address (code).
InitTrap ==
    /\ primask \in {0, 1}
    /\ frames = <<NewFrame>>
    /\ unwinds = FALSE
    /\ \E n \in 0..2, call \in CallValues, sp \in StackTops, ret \in ReturnAddrs,
          control \in {MAIN_STACK, PROGRAM_STACK} :
          \E args \in ArgLists(n), seed \in {0} :
             /\ sys = [NoSys EXCEPT !.st = "trap", !.n = n, !.call = call, !.args = args]
             /\ task = [top |-> sp, code |-> ret, args |-> 0, seed |-> seed, sp |-> 0]
             /\ mem = [a \in RamAddrs |-> Junk(seed, a)]
             /\ cpu = CallerCpu(control, sp, ret, call, args)
    /\ phase = "trap_entry"
    /\ SchedIdle

NextTrap ==
    \/ trap_push_lr
    \/ trap_sub_sp
    \/ trap_svc
    \/ trap_add_sp
    \/ trap_mov_res
    \/ trap_pop_pc
    \/ BootIrq

SpecTrap == InitTrap /\ [][NextTrap]_vars

\* Kernel code asks in_kernel_mode() from the thread and from interrupt
\* handlers, for every value the CONTROL register can hold
InitMode ==
    /\ primask \in {0, 1}
    /\ frames = <<NewFrame>>
    /\ sys = NoSys
    /\ unwinds = FALSE
    /\ task = NoTask
    /\ mem = [a \in RamAddrs |-> 0]
    /\ \E control \in ControlValues : cpu = [ResetCpu EXCEPT !.control = control]
    /\ phase = "idle"
    /\ SchedIdle

NextMode ==
    \/ begin_critical_mrs
    \/ begin_critical_cpsid
    \/ DropInnermost
    \/ IrqEnter
    \/ IrqReturn
    \/ InKernelMode

SpecMode == InitMode /\ [][NextMode]_vars

\* Tasks and interrupt handlers that nest their critical sections properly
\* and call yield_cpu; the system tick; the pended context switch
InitSched ==
    /\ primask \in {0, 1}
    /\ frames = <<NewFrame>>
    /\ sys = NoSys
    /\ unwinds = FALSE
    /\ BootIdle
    /\ SchedIdle

NextSched ==
    \/ begin_critical_mrs
    \/ begin_critical_cpsid
    \/ DropInnermost
    \/ IrqEnter
    \/ IrqReturn
    \/ yield_cpu_load
    \/ yield_cpu_store
    \/ PendSVHandler
    \/ SysTickPends
    \/ SysTickEnter

SpecSched == InitSched /\ [][NextSched]_vars

(***************************************************************************)
(* Properties                                                              *)
(***************************************************************************)
Thread == frames[1]
ThreadOnTop == Len(frames) = 1

\* A context is inside an outermost region that began with interrupts enabled
StartedEnabled(f) == f.held # <<>> /\ f.held[1] = 0

\* One context releases one token, the innermost, between this state and the next
ReleasesInnermost ==
    /\ Len(frames') = Len(frames)
    /\ Top.held # <<>>
    /\ Top'.held = Front(Top.held)

NestingInv ==
    \A k \in 1..Len(frames) :
        StartedEnabled(frames[k]) =>
            /\ primask = 1
            /\ k = Len(frames)
            /\ \A i \in 2..Len(frames[k].held) : frames[k].held[i] = 1

\* C1: with properly nested begin/end pairs started with interrupts enabled,
\* interrupts are disabled (and no handler preempts) from the outermost
\* begin_critical to the outermost end_critical, every inner end leaves them
\* disabled, and PRIMASK goes from 1 to 0 only at an outermost end_critical,
\* which always re-enables.
C1_NestedCritical ==
    /\ []NestingInv
    /\ [][/\ (primask = 1 /\ primask' = 0) =>
                (ReleasesInnermost /\ Top.held = <<0>>)
          /\ (ReleasesInnermost /\ Top.held = <<0>>) => primask' = 0
          /\ (ReleasesInnermost /\ StartedEnabled(Top) /\ Len(Top.held) > 1) => primask' = 1]_vars

C1_Witness ==
    /\ ThreadOnTop
    /\ Thread.pc = "run"
    /\ Thread.held = <<0, 1>>
    /\ primask = 1

\* C2: begin_critical returns the mask in effect as its token and leaves
\* interrupts disabled, for a prior mask of 0 and of 1; the matching
\* end_critical sets the mask to that token, so the pair restores the mask.
C2_BeginEndRestores ==
    /\ [](Top.pc \in {"mrs", "sys_mrs"} => Top.tmp = primask)
    /\ [][/\ (Len(frames') = Len(frames) /\ Top.pc \in {"mrs", "sys_mrs"} /\ Top'.pc # Top.pc) =>
                (/\ Top'.held = Append(Top.held, primask)
                 /\ primask' = 1)
          /\ ReleasesInnermost => primask' = Last(Top.held)]_vars

C2_Witness ==
    /\ ThreadOnTop
    /\ Thread.pc = "run"
    /\ Thread.held = <<1>>
    /\ primask = 1
    /\ sys.st = "none"

\* C3: whenever a context holds at least one live guard, interrupts are masked,
\* whatever the order in which guards are created and dropped.
C3_LiveGuardMasks ==
    \A k \in 1..Len(frames) : frames[k].held # <<>> => primask = 1

\* The layout the claims state, in bytes from the top T of the stack
PrimedWord(addr) ==
    CASE addr = task.top - 4 -> 16777216
      [] addr = task.top - 8 -> task.code
      [] addr = task.top - 12 -> ExitErrorAddr
      [] addr = task.top - 32 -> task.args
      [] OTHER -> Junk(task.seed, addr)

\* C4: initialize_stack(T, F, A) returns T minus 16 words (0x20000FC0 for
\* T = 0x20001000) and changes exactly four words of memory: T-1 is
\* 0x01000000, T-2 is F, T-3 is the exit trampoline, T-8 is A; every other
\* word, inside and outside [T-16, T), keeps its prior contents.
C4_PrimedLayout ==
    phase = "primed" =>
        /\ task.sp = task.top - 64
        /\ (task.top = 536875008 => task.sp = 536874944)
        /\ \A a \in RamAddrs : mem[a] = PrimedWord(a)

C4_Witness ==
    /\ phase = "primed"
    /\ task.top = 536875008
    /\ task.args = 536871040
    /\ mem[536874976] = 536871040

\* Word i counted upward from the returned pointer S, word 0 at S
FrameWord(i) == Read(mem, task.sp + 4 * i)

\* C5 as stated: word 7 from S is A, word 13 the exit trampoline, word 14 is
\* F and word 15 is 0x01000000.
C5_Original ==
    phase = "primed" =>
        /\ FrameWord(7) = task.args
        /\ FrameWord(13) = ExitErrorAddr
        /\ FrameWord(14) = task.code
        /\ FrameWord(15) = 16777216

\* C5 amended: word 8 from S (not word 7) is A; word 7 is left as it was;
\* word 13 is the exit trampoline, word 14 is F and word 15 is 0x01000000.
C5_FrameWords ==
    phase = "primed" =>
        /\ FrameWord(8) = task.args
        /\ FrameWord(7) = Junk(task.seed, task.sp + 28)
        /\ FrameWord(13) = ExitErrorAddr
        /\ FrameWord(14) = task.code
        /\ FrameWord(15) = 16777216

C5_Witness ==
    /\ phase = "primed"
    /\ FrameWord(8) = task.args
    /\ FrameWord(7) # task.args

\* C6: when start_first_task, entered with interrupts disabled, hands control
\* to the task primed by initialize_stack(T, F, A): execution is at F in
\* Thumb state, R0 = A, LR = the exit trampoline, PSP = T, CONTROL selects
\* the process stack and interrupts are enabled.
C6_FirstTaskState ==
    phase = "task_entry" =>
        /\ cpu.pc = task.code - 1
        /\ cpu.thumb = 1
        /\ cpu.r[0] = task.args
        /\ cpu.lr = ExitErrorAddr
        /\ cpu.psp = task.top
        /\ cpu.control = 2
        /\ primask = 0

C6_Witness ==
    /\ phase = "task_entry"
    /\ cpu.r[0] = task.args
    /\ cpu.psp = 536875008

\* The handler and the arity the specification gives each call code
CodesOfArity(n) ==
    CASE n = 0 -> {SYS_EXIT, SYS_SCHED_YIELD}
      [] n = 1 -> {SYS_SLEEP, SYS_WAKE, SYS_MX_LOCK, SYS_MX_TRY_LOCK, SYS_MX_UNLOCK,
                   SYS_CV_BROADCAST}
      [] OTHER -> {SYS_SLEEP_FOR, SYS_CV_WAIT}

HandlerOf(call) ==
    CASE call = SYS_EXIT -> "sys_exit"
      [] call = SYS_SCHED_YIELD -> "sys_sched_yield"
      [] call = SYS_SLEEP -> "sys_sleep"
      [] call = SYS_SLEEP_FOR -> "sys_sleep_for"
      [] call = SYS_WAKE -> "sys_wake"
      [] call = SYS_MX_LOCK -> "sys_mutex_lock"
      [] call = SYS_MX_TRY_LOCK -> "sys_mutex_try_lock"
      [] call = SYS_MX_UNLOCK -> "sys_mutex_unlock"
      [] call = SYS_CV_WAIT -> "sys_condvar_wait"
      [] OTHER -> "sys_condvar_broadcast"

PastMatch == sys.st \in {"handled", "panicked", "returned"}

\* C7: for each of the ten codes, the syscall function of its arity calls
\* that code's handler, once, with the arguments as passed and in their
\* order, and returns the handler's boolean as 0/1 for MX_LOCK and
\* MX_TRY_LOCK and 0 for the handlers that return nothing.
C7_DispatchCoverage ==
    /\ (PastMatch /\ sys.call \in CodesOfArity(sys.n)) => sys.st \in {"handled", "returned"}
    /\ sys.st \in {"handled", "returned"} =>
          /\ Len(sys.log) = 1
          /\ sys.log[1].fn = HandlerOf(sys.call)
          /\ sys.log[1].args = sys.args
          /\ IF sys.call \in {SYS_MX_LOCK, SYS_MX_TRY_LOCK}
             THEN \/ sys.log[1].hres = "true" /\ sys.ret = 1
                  \/ sys.log[1].hres = "false" /\ sys.ret = 0
             ELSE sys.log[1].hres = "unit" /\ sys.ret = 0

C7_Witness ==
    /\ sys.st = "returned"
    /\ sys.call = SYS_MX_TRY_LOCK
    /\ sys.args = <<2>>
    /\ sys.ret = 1

\* C8: syscallN called with a code that is not one of its arity-N codes
\* (99, or a code of another arity) panics: no handler is called and the
\* function never returns a word to its caller.
C8_UnknownCodeAborts ==
    (PastMatch /\ sys.call \notin CodesOfArity(sys.n)) =>
        /\ sys.st = "panicked"
        /\ sys.log = <<>>
        /\ Thread.pc \in {"sys_panic", "unwinding", "aborted"}

C8_Witness ==
    /\ Thread.pc = "aborted"
    /\ sys.n = 0
    /\ sys.call = SYS_UNKNOWN

C8_WitnessOtherArity ==
    /\ Thread.pc = "aborted"
    /\ sys.n = 0
    /\ sys.call = SYS_SLEEP

\* The thread has left the syscall function: by a return, or by the panic
\* (before the panic unwinds any further into the caller)
ReturnExit == ThreadOnTop /\ Thread.pc = "sys_out"
FailureExit ==
    /\ ThreadOnTop
    /\ sys.st = "panicked"
    /\ Thread.pc \in {"unwinding", "aborted"}
    /\ Len(Thread.held) >= sys.depth
GuardReleased == Len(Thread.held) = sys.depth /\ primask = sys.entry

C9_WitnessAbort ==
    /\ FailureExit
    /\ ~unwinds
    /\ sys.entry = 0
    /\ primask = 1

\* C10: when the entry function of the launched task returns normally,
\* execution continues at the exit trampoline and nowhere else; the
\* trampoline calls the termination syscall and does not return.
C10_ReturnLandsInTrampoline ==
    /\ phase \in {"returned", "exited"} => (cpu.pc = ExitErrorAddr - 1 /\ cpu.thumb = 1)
    /\ phase = "exited" => cpu.exits = 1

C10_Witness ==
    /\ phase = "exited"
    /\ cpu.exits = 1
    /\ cpu.lr # ExitErrorAddr

BeforeSwitch == {"created", "primed", "sft_loaded", "sft_psp"}
TaskCode == {"task_entry", "task_body"}

\* C12: from the reset state, in_kernel_mode() returns true at every point
\* before start_first_task has switched stacks, and false when task code
\* calls it at any point after control reached the first task
C12_ModeAcrossLaunch ==
    /\ phase \in BeforeSwitch => in_kernel_mode(mrs_control)
    /\ phase \in TaskCode => ~in_kernel_mode(mrs_control)

\* the first task is running its body on the process stack
C12_Witness == phase = "task_body" /\ cpu.control = PROGRAM_STACK

PendSVPending == Bit(icsr, PEND_SV_SET) = 1

\* yield_cpu's store by the running context, between this state and the next
YieldStores ==
    /\ Len(frames') = Len(frames)
    /\ current' = current
    /\ Top.pc = "yield"
    /\ Top'.pc = "run"

\* The pended switch handler runs between this state and the next
SwitchServiced == PendSVPending /\ ~PendSVPending'

\* C13: k >= 1 calls of yield_cpu before the pended handler runs leave what
\* one call leaves: the PendSV set-pending bit is 1, and one context switch
\* answers all k requests
C13_YieldIdempotent ==
    /\ [](requests.pending >= 1 <=> PendSVPending)
    /\ [][/\ YieldStores => PendSVPending'
          /\ (YieldStores /\ requests.pending >= 1) => (PendSVPending /\ PendSVPending')
          /\ SwitchServiced => (/\ requests'.served = requests.pending
                                /\ requests'.pending = 0)]_vars

\* one context switch has answered at least two calls of yield_cpu
C13_Witness == requests.served >= 2 /\ ~PendSVPending

\* C14: yield_cpu only sets the PendSV pending bit and returns in the same
\* task context; the running task changes only inside the pended switch
\* handler, which never runs while interrupts are masked, so a yield made
\* while masked stays pending until interrupts are enabled
C14_YieldOnlyPends ==
    [][/\ YieldStores => (/\ icsr' = BitOr(icsr, PEND_SV_SET)
                          /\ primask' = primask
                          /\ parked' = parked
                          /\ Top' = [Top EXCEPT !.pc = "run", !.tmp = 0]
                          /\ Front(frames') = Front(frames))
       /\ (current' # current \/ parked' # parked) => (SwitchServiced /\ primask = 0)
       /\ SwitchServiced => (primask = 0 /\ ThreadOnTop)
       /\ (primask = 1 /\ PendSVPending /\ primask' = 1) => PendSVPending']_vars

\* the part of C14 about the context switch alone
C14_SwitchDeferred ==
    [][/\ YieldStores => (/\ PendSVPending'
                          /\ primask' = primask
                          /\ parked' = parked
                          /\ Top' = [Top EXCEPT !.pc = "run", !.tmp = 0]
                          /\ Front(frames') = Front(frames))
       /\ (current' # current \/ parked' # parked) => (SwitchServiced /\ primask = 0)
       /\ SwitchServiced => (primask = 0 /\ ThreadOnTop)
       /\ (primask = 1 /\ PendSVPending /\ primask' = 1) => PendSVPending']_vars

\* The contexts that are not executing: preempted by a handler, or the thread
\* of a task that is switched out
Suspended ==
    {frames[k] : k \in 1..(Len(frames) - 1)} \cup {parked[t] : t \in Tasks \ {current}}

\* begin_critical's "cpsid i" by the running context, between this state and
\* the next
Disables ==
    /\ Len(frames') = Len(frames)
    /\ current' = current
    /\ Top.pc = "mrs"
    /\ Top'.pc = "run"

\* C17: the token begin_critical returns is the mask in effect at the moment
\* interrupts become disabled, also when an interrupt whose handler uses
\* paired begin/end_critical or pends a context switch is taken between the
\* read of PRIMASK and "cpsid i"; so the matching end_critical never enables
\* interrupts that were disabled before the call and never leaves them
\* disabled when they were enabled
C17_TokenIsMaskAtDisable ==
    /\ [](\A c \in Suspended : c.pc = "mrs" => c.tmp = 0)
    /\ [](Top.pc = "mrs" => Top.tmp = primask)
    /\ [][/\ Disables => Last(Top'.held) = primask
          /\ (ReleasesInnermost /\ current' = current) =>
                (/\ Last(Top.held) = 1 => primask' = 1
                 /\ Last(Top.held) = 0 => primask' = 0)]_vars

\* a handler runs while the thread is between the read and "cpsid i", and
\* another task was switched out at the same point
C17_Witness ==
    /\ Len(frames) > 1
    /\ frames[1].pc = "mrs"
    /\ \E t \in Tasks \ {current} : parked[t].pc = "mrs"
    /\ PendSVPending

\* start_first_task has been entered and has not reached "cpsie i"
Launching == {"sft_loaded", "sft_psp", "sft_control", "sft_popped", "sft_lr", "sft_pc", "sft_xpsr"}

\* The process stack pointer, CONTROL and the registers the launch loads all
\* hold their final values
FullyLoaded ==
    /\ cpu.psp = task.sp + 16 * WordBytes
    /\ cpu.control = start_first_task_control
    /\ cpu.r[0] = PrimedWord(task.sp + 8 * WordBytes)
    /\ cpu.r[1] = PrimedWord(task.sp + 9 * WordBytes)
    /\ cpu.lr = PrimedWord(task.sp + 13 * WordBytes)
    /\ cpu.r[3] = PrimedWord(task.sp + 14 * WordBytes)

\* C18: start_first_task, entered with interrupts disabled, keeps them
\* disabled until PSP is set, CONTROL is switched and every frame word is
\* popped; enabling interrupts is the last step before the branch to the
\* entry point, so no interrupt is taken while the stack pointer, CONTROL
\* and the registers are partially loaded
C18_MaskedUntilLoaded ==
    /\ [](phase \in Launching => (primask = 1 /\ cpu.irqs = 0))
    /\ [][/\ (primask = 1 /\ primask' = 0) => (phase = "sft_xpsr" /\ FullyLoaded)
          /\ cpu'.irqs # cpu.irqs =>
                (phase \notin Launching /\ (phase = "sft_cpsie" => FullyLoaded))
          /\ (phase = "sft_cpsie" /\ phase' # phase) => phase' = "task_entry"]_vars

\* an interrupt is taken between "cpsie i" and "bx r3"
C18_Witness == phase = "sft_cpsie" /\ cpu.irqs > 0 /\ primask = 0

\* Word i of the frame start_first_task was handed, word 0 at the saved
\* stack pointer
SavedWord(i) == PrimedWord(task.sp + i * WordBytes)

\* C19 as stated: start_first_task leaves every register other than xPSR as
\* a context-switch restore and an exception return from the same frame
\* would: R4-R11 hold the eight software-saved words, R0-R3 and R12 their
\* hardware-frame words, LR and PC theirs, PSP the saved pointer plus 16 words
C19_Original ==
    phase = "task_entry" =>
        /\ \A i \in 4..11 : \E k \in 0..7 : cpu.r[i] = SavedWord(k)
        /\ \A i \in 0..3 : cpu.r[i] = SavedWord(8 + i)
        /\ cpu.r[12] = SavedWord(12)
        /\ cpu.lr = SavedWord(13)
        /\ cpu.pc = FnAddr(SavedWord(14))
        /\ cpu.psp = task.sp + 16 * WordBytes

\* C19 amended: R0, R1, LR, PC and PSP are what an exception return from the
\* frame would leave; the eight software-saved words are skipped, R2 holds
\* the xPSR word, R3 the PC word, R4 the R12 word, R5 the LR word, and
\* R6-R12 keep the values they had before the call
C19_LaunchRegisters ==
    phase = "task_entry" =>
        /\ cpu.r[0] = SavedWord(8)
        /\ cpu.r[1] = SavedWord(9)
        /\ cpu.lr = SavedWord(13)
        /\ cpu.pc = FnAddr(SavedWord(14))
        /\ cpu.psp = task.sp + 16 * WordBytes
        /\ cpu.r[2] = SavedWord(15)
        /\ cpu.r[3] = SavedWord(14)
        /\ cpu.r[4] = SavedWord(12)
        /\ cpu.r[5] = SavedWord(13)
        /\ \A i \in 6..12 : cpu.r[i] = ResetCpu.r[i]

\* the first task is entered with the R12 word of its frame in R4
C19_Witness ==
    /\ phase = "task_entry"
    /\ cpu.r[4] = SavedWord(12)
    /\ cpu.r[4] # SavedWord(0)
    /\ cpu.r[12] # SavedWord(12)

\* The running context's guards change between this state and the next
GuardsChange == Len(frames') = Len(frames) /\ Top'.held # Top.held

\* CriticalSection::begin() returns: one guard more, holding the value
\* begin_critical read, and begin_critical has disabled interrupts
Constructed ==
    /\ Top.pc = "mrs"
    /\ Top'.held = Append(Top.held, Top.tmp)
    /\ primask' = 1

\* Guard i goes out of scope: one guard less, and end_critical has written
\* that guard's token to PRIMASK
Released(i) ==
    /\ i \in 1..Len(Top.held)
    /\ Top'.held = RemoveAt(Top.held, i)
    /\ primask' = PrimaskBit(Top.held[i])

\* C15: constructing a guard calls begin_critical once and stores its token;
\* when the guard goes out of scope end_critical is called once with that
\* same token, and end_critical is never called with any other token
C15_GuardPairsToken ==
    [][/\ GuardsChange => (Constructed \/ \E i \in 1..MaxNest : Released(i))
       /\ primask' # primask => GuardsChange
       /\ Len(frames') = Len(frames) =>
             \A k \in 1..(Len(frames) - 1) : frames'[k] = frames[k]]_vars

\* the outer of two guards was dropped first, with its own token 0, and the
\* inner guard, whose token is 1, is still live
C15_Witness ==
    /\ Top.pc = "run"
    /\ Top.held = <<1>>
    /\ primask = 0

\* The thread holds the guard of an in-line system call
InSyscall == Thread.pc \in {"sys_match", "sys_drop", "sys_panic"}

\* C16: in in-line mode, from the acquisition of the guard in syscall0/1/2 to
\* its release interrupts are masked, so no interrupt handler and no other
\* task runs between two steps of the syscall handler
C16_SyscallAtomic ==
    /\ [](InSyscall => (primask = 1 /\ ThreadOnTop))
    /\ [][InSyscall => (/\ Len(frames') = 1
                        /\ primask' = 1 \/ Thread'.pc \in {"sys_out", "unwinding"})]_vars

\* a system call made with interrupts enabled has run its handler and still
\* holds its guard
C16_Witness ==
    /\ Thread.pc = "sys_drop"
    /\ sys.st = "handled"
    /\ sys.entry = 0
    /\ primask = 1

\* C20: in hardware-trap mode, for syscall0/1/2 entered with the stack
\* pointer 8-byte aligned: at the svc instruction the stack pointer is the
\* entry value minus 8 bytes, so still 8-byte aligned, and the argument
\* registers hold the call code and the arguments as passed; on return the
\* stack pointer is the entry value and control is at the caller's return
\* address
C20_TrapKeepsStack ==
    /\ phase = "trap_svc" =>
        /\ SP(cpu) = task.top - 8
        /\ SP(cpu) % 8 = 0
        /\ cpu.r[0] = sys.call
        /\ \A i \in 1..sys.n : cpu.r[i] = sys.args[i]
    /\ phase = "trap_returned" =>
        /\ SP(cpu) = task.top
        /\ cpu.pc = FnAddr(task.code)
        /\ cpu.thumb = 1

\* syscall2 has returned to its caller on the process stack after an
\* interrupt was taken inside it
C20_Witness ==
    /\ phase = "trap_returned"
    /\ sys.n = 2
    /\ sys.st = "trapped"
    /\ cpu.control = PROGRAM_STACK
    /\ cpu.psp = 536875008
    /\ cpu.irqs > 0

====
